---- MODULE Spec2Model ----
(***************************************************************************)
(* A model of project_version_8.py: retinotopic map formation between a    *)
(* retinal sheet (YR x XR) and a tectal sheet (YT x XT).                   *)
(*                                                                         *)
(* Five views of the program are modelled, each with its own               *)
(* specification:                                                          *)
(*   Spec          the synapse matrix 's' and the three operations that    *)
(*                 write it (implement_polarity_markers, normalise,        *)
(*                 update_synaptic_weightings), called in any order;       *)
(*   RelaxFairSpec the while loop of tectal_interactions;                  *)
(*   PolicySpec    the activation policies, the dispatch on the policy     *)
(*                 and marker names, and activate_tectal_sheet;            *)
(*   TwoPairsFairSpec  the rejection loops of retinal_neuron_2_pairs,      *)
(*                 draw by draw;                                           *)
(*   RunSpec       the repeats of run with calculate_COM and quality.      *)
(*                                                                         *)
(* Numbers.  The synapse strengths are Python floats.  In Spec they are    *)
(* exact rationals <<n, d>> in lowest terms with d > 0, extended with the  *)
(* IEEE non-finite values numpy produces on a division by zero:            *)
(* <<1, 0>> is +inf, <<-1, 0>> is -inf and <<0, 0>> is NaN.  Rounding of   *)
(* the last binary digit is not modelled.  The relaxation loop iterates a  *)
(* map whose exact denominators grow without bound, so there the floats    *)
(* are fixed-point integers in units of 1/Q, each product rounded down.    *)
(***************************************************************************)
EXTENDS Integers, Sequences, FiniteSets, TLC

VARIABLES
    XT, YT, XR, YR,     \* sheet dimensions (arguments of every function)
    cfg,                \* the parameters run() is called with
    s,                  \* the synapse matrix: s[t][r], t in 0..XT*YT-1, r in 0..XR*YR-1
    s_old,              \* history: 's' as it was when the last call started
    last,               \* history: the last call, its arguments and what it computed
    s_init_ok,          \* history: the initial 's' was non-negative with positive row sums
    ncalls,             \* number of calls made so far
    \* tectal_interactions
    rp,                 \* its arguments dt, beta, gamma, delta, alpha, theta, verbose
    H_grid_initial,     \* its argument: the retinal drive, a YT x XT grid
    H_grid,
    H_grid_before,      \* history: H_grid on entry to the last pass of the loop
    H_star_grid,        \* 'H_star' of the last pass
    new_H_grid,
    mean_H_grid,
    mean_new_H_grid,
    converged,
    n_loops,
    pc,                 \* "while": at the loop test, "body": in the loop, "returned"
    \* activate_retinal_neurons
    activity_pattern,   \* the policy name run() is called with
    loop_count,         \* the epoch index the next activation is called with
    activation,         \* the retinal_neurons the last activation returned
    drawn,              \* history: the (y1, x1) drawn by the last activation
    tectal_sheet,       \* what activate_tectal_sheet returned for 'activation'
    two_pairs,          \* the locals of retinal_neuron_2_pairs and its position "pc"
    s_marked,           \* what implement_polarity_markers returned for PM_kind
    PM_kind,            \* the polarity-marker kind run() is called with
    \* run, calculate_COM, quality
    num_repeats,
    repeat_count,
    quality_matrix,
    COM_X,
    COM_Y,
    q,
    q_history,          \* history: the quality computed in each repeat so far
    run_result,         \* what run() returned
    run_pc              \* "loop": at the test of run's while loop, "returned"

synVars == <<XT, YT, XR, YR, cfg, s, s_old, last, s_init_ok, ncalls>>

relaxVars == <<rp, H_grid_initial, H_grid, H_grid_before, H_star_grid, new_H_grid,
               mean_H_grid, mean_new_H_grid, converged, n_loops, pc>>

polVars == <<activity_pattern, loop_count, activation, drawn, tectal_sheet, two_pairs, s_marked,
             PM_kind>>

mapVars ==
    <<num_repeats, repeat_count, quality_matrix, COM_X, COM_Y, q, q_history, run_result, run_pc>>

vars == <<synVars, relaxVars, polVars, mapVars>>

-----------------------------------------------------------------------------
(* Bounds of the model *)

\* Sheets are MinDim = MaxDim - 1 or MaxDim neurons wide and high.
MaxDim == 3
\* The random draws of a call are those of the seeds 0..MaxSeed.
MaxSeed == 2
\* Number of calls explored from an initial matrix.
MaxCalls == 2
\* The converged grids update_synaptic_weightings is given are numbered 0..MaxHGrid.
MaxHGrid == 1

\* A tectal activity is a multiple of 1/Q, held as the integer number of units.
Q == 1000

-----------------------------------------------------------------------------
(* Float arithmetic as extended rationals *)

Abs(x) == IF x < 0 THEN -x ELSE x

Sign(x) == IF x > 0 THEN 1 ELSE IF x < 0 THEN -1 ELSE 0

RECURSIVE Gcd(_, _)
Gcd(a, b) == IF b = 0 THEN a ELSE Gcd(b, a % b)

Norm(n, d) ==
    IF d = 0 THEN <<Sign(n), 0>>
    ELSE LET g == Gcd(Abs(n), Abs(d))
         IN  <<(Sign(d) * n) \div g, Abs(d) \div g>>

Rat(n, d) == Norm(n, d)
FromInt(n) == <<n, 1>>
Zero == <<0, 1>>
NaN == <<0, 0>>
IsNaN(a) == a = NaN
IsFinite(a) == a[2] # 0

\* a + b, over the least common denominator
RAdd(a, b) ==
    IF a[2] = 0 /\ b[2] = 0
    THEN (IF a = b THEN a ELSE NaN)
    ELSE IF a[2] = 0 \/ b[2] = 0
    THEN Norm(a[1] * b[2] + b[1] * a[2], 0)
    ELSE LET g == Gcd(a[2], b[2])
         IN  Norm(a[1] * (b[2] \div g) + b[1] * (a[2] \div g), (a[2] \div g) * b[2])

\* a * b, common factors cancelled before the product
RMul(a, b) ==
    IF a[2] = 0 \/ b[2] = 0
    THEN Norm(a[1] * b[1], 0)
    ELSE LET g1 == Gcd(Abs(a[1]), b[2])
             g2 == Gcd(Abs(b[1]), a[2])
         IN  Norm((a[1] \div g1) * (b[1] \div g2), (a[2] \div g2) * (b[2] \div g1))

RNeg(a) == <<-a[1], a[2]>>

\* a - b
RSub(a, b) == RAdd(a, RNeg(b))

\* 1 / a  (1/0 is inf, 1/inf is 0, as numpy's float64 division gives)
RInv(a) ==
    IF IsNaN(a) THEN NaN
    ELSE IF a[1] = 0 THEN <<1, 0>>
    ELSE IF a[2] = 0 THEN Zero
    ELSE Norm(a[2], a[1])

\* a / b
RDiv(a, b) == RMul(a, RInv(b))

\* a < b  (every comparison with NaN is false)
RLt(a, b) ==
    /\ ~IsNaN(a)
    /\ ~IsNaN(b)
    /\ IF a[2] = 0 \/ b[2] = 0
       THEN (IF a[2] = 0 THEN a[1] ELSE 0) < (IF b[2] = 0 THEN b[1] ELSE 0)
       ELSE LET g == Gcd(a[2], b[2])
            IN  a[1] * (b[2] \div g) < b[1] * (a[2] \div g)

\* a > b
RGt(a, b) == RLt(b, a)

\* a <= b
RLe(a, b) == ~IsNaN(a) /\ ~IsNaN(b) /\ ~RLt(b, a)

-----------------------------------------------------------------------------
(* Sheets and matrices *)

MinDim == MaxDim - 1

\* <<XT, YT>> and <<XR, YR>>: a square and a wide tectum, a high and a square retina
TectalSheets == {<<MinDim, MinDim>>, <<MaxDim, MinDim>>}
RetinalSheets == {<<MinDim, MaxDim>>, <<MaxDim, MaxDim>>}

NT == XT * YT
NR == XR * YR

Tectal == 0..(NT - 1)
Retinal == 0..(NR - 1)

\* numpy indexing of an axis of length n: a negative index counts from the end
PyIndex(i, n) == IF i < 0 THEN i + n ELSE i

RECURSIVE SumTo(_, _)
\* row[0] + ... + row[k-1]
SumTo(row, k) == IF k = 0 THEN Zero ELSE RAdd(SumTo(row, k - 1), row[k - 1])

\* np.mean of a row of n entries
RowMean(row, n) == RDiv(SumTo(row, n), FromInt(n))

-----------------------------------------------------------------------------
(* Initialisation and polarity markers *)

\* The draws of np.random.normal: three matrices the normal distribution can
\* produce.  0: every row has one positive entry, on the diagonal; 1: every
\* entry positive; 2: entries of both signs, some rows of mean zero.
initialise_synaptic_connections(draw, xt, yt, xr, yr) ==
    [t \in 0..(xt * yt - 1) |->
        [r \in 0..(xr * yr - 1) |->
            IF draw = 0 THEN (IF r = t % (xr * yr) THEN FromInt(3) ELSE Zero)
            ELSE IF draw = 1 THEN FromInt(1 + ((2 * t + 3 * r) % 5))
            ELSE FromInt(((t + 2 * r) % 4) - 1)]]

\* rnd_y, rnd_x are the results of np.random.randint(YR-1), np.random.randint(XR-1)
configure_retinal_polarity_markers(xr, yr, default_polarity_markers, rnd_y, rnd_x) ==
    LET R_PM_y1 == IF default_polarity_markers THEN 0 ELSE rnd_y
        R_PM_x1 == IF default_polarity_markers THEN 0 ELSE rnd_x
        R_PM_y2 == IF default_polarity_markers THEN 0 ELSE R_PM_y1
        R_PM_x2 == IF default_polarity_markers THEN 1 ELSE R_PM_x1 + 1
        R_PM_y3 == IF default_polarity_markers THEN 1 ELSE R_PM_y1 - 1
        R_PM_y4 == IF default_polarity_markers THEN 1 ELSE R_PM_y2 - 1
        R_PM_x3 == IF default_polarity_markers THEN 0 ELSE R_PM_x1
        R_PM_x4 == IF default_polarity_markers THEN 1 ELSE R_PM_x2
    IN  << R_PM_y1 * xr + R_PM_x1,
           R_PM_y2 * xr + R_PM_x2,
           R_PM_y3 * xr + R_PM_x3,
           R_PM_y4 * xr + R_PM_x4 >>

ConfigureTectalWrongWidth(xt, yt, default_polarity_markers, rnd_y, rnd_x) ==
    LET T_PM_y1 == IF default_polarity_markers THEN 0 ELSE rnd_y
        T_PM_x1 == IF default_polarity_markers THEN 0 ELSE rnd_x
        T_PM_y3 == IF default_polarity_markers THEN 1 ELSE T_PM_y1 - 1
    IN  << T_PM_y1 * yt + T_PM_x1,
           T_PM_y1 * yt + T_PM_x1 + 1,
           T_PM_y3 * yt + T_PM_x1,
           T_PM_y3 * yt + T_PM_x1 + 1 >>

\* rnd_y, rnd_x are the results of np.random.randint(YT-1), np.random.randint(XT-1)
configure_tectal_polarity_markers(xt, yt, default_polarity_markers, rnd_y, rnd_x) ==
    LET T_PM_y1 == IF default_polarity_markers THEN 0 ELSE rnd_y
        T_PM_x1 == IF default_polarity_markers THEN 0 ELSE rnd_x
        T_PM_y2 == IF default_polarity_markers THEN 0 ELSE T_PM_y1
        T_PM_x2 == IF default_polarity_markers THEN 1 ELSE T_PM_x1 + 1
        T_PM_y3 == IF default_polarity_markers THEN 1 ELSE T_PM_y1 - 1
        T_PM_y4 == IF default_polarity_markers THEN 1 ELSE T_PM_y2 - 1
        T_PM_x3 == IF default_polarity_markers THEN 0 ELSE T_PM_x1
        T_PM_x4 == IF default_polarity_markers THEN 1 ELSE T_PM_x2
    IN  << T_PM_y1 * xt + T_PM_x1,
           T_PM_y2 * xt + T_PM_x2,
           T_PM_y3 * xt + T_PM_x3,
           T_PM_y4 * xt + T_PM_x4 >>

\* s[t, r] *= f, with numpy's indexing
MulAt(sm, t, r, f) ==
    LET tt == PyIndex(t, Cardinality(DOMAIN sm))
        rr == PyIndex(r, Cardinality(DOMAIN sm[0]))
    IN  [sm EXCEPT ![tt][rr] = RMul(@, f)]

increase_polarity_marker_synapse_strengths(sm, PM_strength_increase, R_PM, T_PM) ==
    LET s1 == MulAt(sm, T_PM[1], R_PM[1], PM_strength_increase)
        s2 == MulAt(s1, T_PM[2], R_PM[2], PM_strength_increase)
        s3 == MulAt(s2, T_PM[3], R_PM[3], PM_strength_increase)
    IN  MulAt(s3, T_PM[4], R_PM[4], PM_strength_increase)

\* rnd = <<retinal y, retinal x, tectal y, tectal x>>: the four random draws
square_polarity_markers(sm, default_polarity_markers, xr, yr, xt, yt, PM_strength_increase, rnd) ==
    increase_polarity_marker_synapse_strengths(sm, PM_strength_increase,
        configure_retinal_polarity_markers(xr, yr, default_polarity_markers, rnd[1], rnd[2]),
        configure_tectal_polarity_markers(xt, yt, default_polarity_markers, rnd[3], rnd[4]))

\* math.sqrt is modelled to a resolution of 1/SqrtRes, rounded down; it is exact
\* on the squares of multiples of 1/SqrtRes.
SqrtRes == 60

RECURSIVE SqrtSearch(_, _, _)
\* the largest k in lo..hi with (k/SqrtRes)^2 <= x, by bisection
SqrtSearch(lo, hi, x) ==
    IF lo = hi THEN lo
    ELSE LET mid == (lo + hi + 1) \div 2
         IN  IF mid * mid * x[2] <= x[1] * SqrtRes * SqrtRes
             THEN SqrtSearch(mid, hi, x)
             ELSE SqrtSearch(lo, mid - 1, x)

\* math.sqrt(x) for a rational 0 <= x <= 4
Sqrt(x) == Norm(SqrtSearch(0, 2 * SqrtRes, x), SqrtRes)

\* 'dist_squared' of synapse s[j, i] (lines 327-343)
graded_dist_squared(j, i, xt, yt, xr, yr) ==
    LET a == Rat(i \div xr, yr)
        b == Rat(i % xr, xr)
        c == Rat(j \div xt, yt)
        d == Rat(j % xt, xt)
    IN  RAdd(RMul(RSub(a, c), RSub(a, c)), RMul(RSub(b, d), RSub(b, d)))

\* 'dist' of synapse s[j, i] as line 347 leaves it: math.sqrt(dist_squared)
\* divided by INV_SQRT_2 = 1/sqrt(2), which is sqrt(2 * dist_squared)
graded_dist(j, i, xt, yt, xr, yr) ==
    Sqrt(RMul(FromInt(2), graded_dist_squared(j, i, xt, yt, xr, yr)))

GradedFactorFour(dist) == RAdd(RMul(FromInt(-8), dist), FromInt(4))

\* the multiplicative increase -8*dist + 5 of line 354
graded_factor(dist) == RAdd(RMul(FromInt(-8), dist), FromInt(5))

RECURSIVE graded_inner_loop(_, _, _, _, _, _, _)
\* the first k iterations of the inner loop (lines 324-354) for retinal
\* neuron i: the tectal neurons j = 0 .. k-1
graded_inner_loop(sm, i, k, xt, yt, xr, yr) ==
    IF k = 0 THEN sm
    ELSE LET prev == graded_inner_loop(sm, i, k - 1, xt, yt, xr, yr)
             j == k - 1
             dist == graded_dist(j, i, xt, yt, xr, yr)
         IN  IF RLt(dist, Rat(1, 2))
             THEN [prev EXCEPT ![j][i] = RMul(graded_factor(dist), @)]
             ELSE prev

RECURSIVE graded_outer_loop(_, _, _, _, _, _)
\* the first k iterations of the outer loop (line 323): i = 0 .. k-1
graded_outer_loop(sm, k, xt, yt, xr, yr) ==
    IF k = 0 THEN sm
    ELSE LET done == graded_outer_loop(sm, k - 1, xt, yt, xr, yr)
         IN  \* (the test makes TLC compute 'done' once, before the inner loop)
             IF DOMAIN done = DOMAIN sm
             THEN graded_inner_loop(done, k - 1, xt * yt, xt, yt, xr, yr)
             ELSE done

graded_polarity_markers(sm, xt, yt, xr, yr) ==
    graded_outer_loop(sm, xr * yr, xt, yt, xr, yr)

\* what a Python function returns when it falls off its end
None == "None"

implement_polarity_markers(PM_type, sm, default_polarity_markers, xr, yr, xt, yt, PM_strength_increase, rnd) ==
    IF PM_type = "square"
    THEN square_polarity_markers(sm, default_polarity_markers, xr, yr, xt, yt,
                                 PM_strength_increase, rnd)
    ELSE IF PM_type = "graded"
    THEN graded_polarity_markers(sm, xt, yt, xr, yr)
    ELSE None

-----------------------------------------------------------------------------
(* Normalisation *)

\* each row divided by its sum rather than by its mean
NormaliseBySum(sm, ND_mean, xt, yt, xr, yr) ==
    [y \in 0..(xt * yt - 1) |->
        LET sum_T == SumTo(sm[y], xr * yr)
        IN  [x \in 0..(xr * yr - 1) |-> RMul(RDiv(ND_mean, sum_T), sm[y][x])]]

normalise(sm, ND_mean, xt, yt, xr, yr) ==
    [y \in 0..(xt * yt - 1) |->
        LET mean_T == RowMean(sm[y], xr * yr)
        IN  [x \in 0..(xr * yr - 1) |-> RMul(RDiv(ND_mean, mean_T), sm[y][x])]]

-----------------------------------------------------------------------------
(* Hebbian update *)

\* theta subtracted from every cell, the cells below it included
ThresholdNoFloor(grid, theta, xt, yt) ==
    [j \in 0..(yt - 1) |-> [i \in 0..(xt - 1) |-> grid[j][i] - theta]]

\* grid and theta in units of 1/Q
threshold(grid, theta, xt, yt) ==
    [j \in 0..(yt - 1) |->
        [i \in 0..(xt - 1) |-> IF grid[j][i] > theta THEN grid[j][i] - theta ELSE 0]]

RECURSIVE AddToRow(_, _, _, _)
\* for x in retinal_neurons[1..k]: row[x] += inc
AddToRow(row, retinal_neurons, k, inc) ==
    IF k = 0 THEN row
    ELSE LET prev == AddToRow(row, retinal_neurons, k - 1, inc)
             x == PyIndex(retinal_neurons[k], Cardinality(DOMAIN row))
         IN  [prev EXCEPT ![x] = RAdd(@, inc)]

UpdateEveryRow(new_grid, theta, xt, yt, retinal_neurons, h, sm, epsilon) ==
    LET new_H_star == threshold(new_grid, theta, xt, yt)
    IN  [y \in 0..(xt * yt - 1) |->
            AddToRow(sm[y], retinal_neurons, Len(retinal_neurons),
                     RMul(h, Rat(new_H_star[y \div xt][y % xt], Q)))]

UpdateUnthresholded(new_grid, theta, xt, yt, retinal_neurons, h, sm, epsilon) ==
    LET new_H_star == threshold(new_grid, theta, xt, yt)
    IN  [y \in 0..(xt * yt - 1) |->
            IF new_H_star[y \div xt][y % xt] > epsilon
            THEN AddToRow(sm[y], retinal_neurons, Len(retinal_neurons),
                          RMul(h, Rat(new_grid[y \div xt][y % xt], Q)))
            ELSE sm[y]]

UpdateSubtracting(new_grid, theta, xt, yt, retinal_neurons, h, sm, epsilon) ==
    LET new_H_star == threshold(new_grid, theta, xt, yt)
    IN  [y \in 0..(xt * yt - 1) |->
            IF new_H_star[y \div xt][y % xt] > epsilon
            THEN AddToRow(sm[y], retinal_neurons, Len(retinal_neurons),
                          RNeg(RMul(h, Rat(new_H_star[y \div xt][y % xt], Q))))
            ELSE sm[y]]

\* lin_new_H_star[y] is new_H_star[y // XT, y % XT] (np.reshape, row-major);
\* new_grid, theta and epsilon in units of 1/Q
update_synaptic_weightings(new_grid, theta, xt, yt, retinal_neurons, h, sm, epsilon) ==
    LET new_H_star == threshold(new_grid, theta, xt, yt)
    IN  [y \in 0..(xt * yt - 1) |->
            IF new_H_star[y \div xt][y % xt] > epsilon
            THEN AddToRow(sm[y], retinal_neurons, Len(retinal_neurons),
                          RMul(h, Rat(new_H_star[y \div xt][y % xt], Q)))
            ELSE sm[y]]

-----------------------------------------------------------------------------
(* The synapse matrix and the calls that write it *)

\* The parameter bundles of run(): the script's (with h = 1/2 for 0.0008, so
\* that the numbers stay small), one with a polarity factor of 0, and one
\* with a negative factor, a negative rate and a target mean of 0.
Configs ==
    << [PM_strength_increase |-> FromInt(5), h |-> Rat(1, 2), ND_mean |-> Rat(5, 2),
       theta |-> 10 * Q, epsilon |-> 2 * Q],
      [PM_strength_increase |-> Zero, h |-> Rat(1, 2), ND_mean |-> Rat(5, 2),
       theta |-> 10 * Q, epsilon |-> 2 * Q],
      [PM_strength_increase |-> FromInt(-1), h |-> Rat(-1, 2), ND_mean |-> Zero,
       theta |-> 10 * Q, epsilon |-> 2 * Q] >>

\* <<parameter bundle, draw of the initial matrix>> of the runs explored
RunInputs == {<<1, 1>>, <<1, 0>>, <<1, 2>>, <<2, 0>>, <<3, 2>>}

\* The results of np.random.randint(YR-1), (XR-1), (YT-1), (XT-1) under a seed
RandomDraws(seed, xr, yr, xt, yt) ==
    << seed % (yr - 1), (seed \div 2) % (xr - 1), (seed \div 2) % (yt - 1), seed % (xt - 1) >>

NonNegative(sm) == \A t \in DOMAIN sm : \A r \in DOMAIN sm[t] : RLe(Zero, sm[t][r])

PositiveRows(sm) ==
    \A t \in DOMAIN sm : RLt(Zero, SumTo(sm[t], Cardinality(DOMAIN sm[t])))

NoCall ==
    [op |-> "none", PM_type |-> "", default_polarity_markers |-> FALSE,
     R_PM |-> <<>>, T_PM |-> <<>>, retinal_neurons |-> <<>>, new_H_grid |-> <<>>]

\* The arrays of retinal neurons update_synaptic_weightings is called with: a
\* single neuron and a pair (the indices a policy returns are distinct).
ActivationInputs(xr, yr) ==
    { <<xr * yr - 1>>, <<1, 0>> }

\* The converged grids update_synaptic_weightings is called with: activities
\* below theta, at theta, at theta + epsilon and above it.
HGridInputs(xt, yt) ==
    { [j \in 0..(yt - 1) |->
         [i \in 0..(xt - 1) |->
             <<0, 10, 12, 13, 15>>[((j * xt + i + k) % 5) + 1] * Q]] : k \in 0..MaxHGrid }

RelaxIdle ==
    /\ rp = <<>>
    /\ H_grid_initial = <<>>
    /\ H_grid = <<>>
    /\ H_grid_before = <<>>
    /\ H_star_grid = <<>>
    /\ new_H_grid = <<>>
    /\ mean_H_grid = 0
    /\ mean_new_H_grid = 0
    /\ converged = FALSE
    /\ n_loops = 0
    /\ pc = "idle"

PolIdle ==
    /\ activity_pattern = ""
    /\ loop_count = 0
    /\ activation = <<>>
    /\ drawn = <<>>
    /\ tectal_sheet = <<>>
    /\ two_pairs = <<>>
    /\ s_marked = <<>>
    /\ PM_kind = ""

MapIdle ==
    /\ num_repeats = 0
    /\ repeat_count = 0
    /\ quality_matrix = <<>>
    /\ COM_X = <<>>
    /\ COM_Y = <<>>
    /\ q = Zero
    /\ q_history = <<>>
    /\ run_result = <<>>
    /\ run_pc = "idle"

SynInit ==
    /\ \E sheet \in TectalSheets : XT = sheet[1] /\ YT = sheet[2]
    /\ \E sheet \in RetinalSheets : XR = sheet[1] /\ YR = sheet[2]
    /\ \E in \in RunInputs :
          /\ cfg = Configs[in[1]]
          /\ s = initialise_synaptic_connections(in[2], XT, YT, XR, YR)
    /\ s_old = s
    /\ last = NoCall
    /\ s_init_ok = (NonNegative(s) /\ PositiveRows(s))
    /\ ncalls = 0
    /\ RelaxIdle
    /\ PolIdle
    /\ MapIdle

Called ==
    /\ ncalls < MaxCalls
    /\ ncalls' = ncalls + 1
    /\ s_old' = s
    /\ UNCHANGED <<XT, YT, XR, YR, cfg, s_init_ok, relaxVars, polVars, mapVars>>

ImplementPolarityMarkers ==
    /\ Called
    /\ \E PM_type \in {"square", "graded"}, default_polarity_markers \in BOOLEAN,
          seed \in 0..MaxSeed :
          \* no draw is made for graded markers or the default anchor
          /\ (PM_type = "graded" \/ default_polarity_markers) => seed = 0
          /\ PM_type = "graded" => ~default_polarity_markers
          /\ LET rnd == RandomDraws(seed, XR, YR, XT, YT) IN
             /\ s' = implement_polarity_markers(PM_type, s, default_polarity_markers,
                         XR, YR, XT, YT, cfg.PM_strength_increase, rnd)
             /\ last' = [NoCall EXCEPT
                    !.op = "implement_polarity_markers",
                    !.PM_type = PM_type,
                    !.default_polarity_markers = default_polarity_markers,
                    !.R_PM = IF PM_type = "square"
                             THEN configure_retinal_polarity_markers(XR, YR,
                                      default_polarity_markers, rnd[1], rnd[2])
                             ELSE <<>>,
                    !.T_PM = IF PM_type = "square"
                             THEN configure_tectal_polarity_markers(XT, YT,
                                      default_polarity_markers, rnd[3], rnd[4])
                             ELSE <<>>]

Normalise ==
    /\ Called
    /\ s' = normalise(s, cfg.ND_mean, XT, YT, XR, YR)
    /\ last' = [NoCall EXCEPT !.op = "normalise"]

UpdateSynapticWeightings ==
    /\ Called
    /\ \E retinal_neurons \in ActivationInputs(XR, YR), grid \in HGridInputs(XT, YT) :
          /\ s' = update_synaptic_weightings(grid, cfg.theta, XT, YT, retinal_neurons,
                      cfg.h, s, cfg.epsilon)
          /\ last' = [NoCall EXCEPT !.op = "update_synaptic_weightings",
                                    !.retinal_neurons = retinal_neurons,
                                    !.new_H_grid = grid]

SynNext == ImplementPolarityMarkers \/ Normalise \/ UpdateSynapticWeightings

Spec == SynInit /\ [][SynNext]_vars

-----------------------------------------------------------------------------
(* Properties of the calls that write the synapse matrix *)

IsUpdate == last.op = "update_synaptic_weightings"
IsNormalise == last.op = "normalise"
IsSquare(default_polarity_markers) ==
    /\ last.op = "implement_polarity_markers"
    /\ last.PM_type = "square"
    /\ last.default_polarity_markers = default_polarity_markers
IsGraded == last.op = "implement_polarity_markers" /\ last.PM_type = "graded"

InArray(r, array) == \E k \in 1..Len(array) : array[k] = r

\* max(H[t] - theta, 0) of tectal neuron t in the grid of the last update, in units of 1/Q
Activity(t) ==
    LET H == last.new_H_grid[t \div XT][t % XT]
    IN  IF H - cfg.theta > 0 THEN H - cfg.theta ELSE 0

Changed(t, r) == s[t][r] # s_old[t][r]

\* C3: update_synaptic_weightings leaves unchanged every entry in a column
\* outside the activation set and every entry in a row whose thresholded
\* activity is at or below epsilon.
C3_UpdateFrame ==
    IsUpdate =>
        \A t \in Tectal : \A r \in Retinal :
            (~InArray(r, last.retinal_neurons) \/ Activity(t) <= cfg.epsilon)
                => s[t][r] = s_old[t][r]

C3_Witness ==
    /\ IsUpdate
    /\ \E t \in Tectal : \E r \in Retinal : Changed(t, r)
    /\ \E t \in Tectal : \E r \in Retinal :
          /\ InArray(r, last.retinal_neurons)
          /\ Activity(t) = cfg.epsilon
          /\ s_old[t][r] # Zero
    /\ \E r \in Retinal : ~InArray(r, last.retinal_neurons)

\* C4: for every tectal neuron t with thresholded activity a > epsilon and
\* every r in the activation set the update sets S[t, r] to its old value
\* plus h*a; for h > 0 no weight is decreased, and the increase is
\* non-decreasing in a.
C4_UpdateAddsHebbianTerm ==
    IsUpdate =>
        /\ \A t \in Tectal : \A r \in Retinal :
              (InArray(r, last.retinal_neurons) /\ Activity(t) > cfg.epsilon)
                  => s[t][r] = RAdd(s_old[t][r], RMul(cfg.h, Rat(Activity(t), Q)))
        /\ RLt(Zero, cfg.h) =>
              /\ \A t \in Tectal : \A r \in Retinal : ~RLt(s[t][r], s_old[t][r])
              /\ \A t1, t2 \in Tectal : \A r \in Retinal :
                    (/\ InArray(r, last.retinal_neurons)
                     /\ cfg.epsilon < Activity(t1)
                     /\ Activity(t1) <= Activity(t2)
                     /\ IsFinite(s_old[t1][r])
                     /\ IsFinite(s_old[t2][r]))
                        => RLe(RSub(s[t1][r], s_old[t1][r]), RSub(s[t2][r], s_old[t2][r]))

C4_Witness ==
    /\ IsUpdate
    /\ RLt(Zero, cfg.h)
    /\ \E t1, t2 \in Tectal : \E r \in Retinal :
          /\ InArray(r, last.retinal_neurons)
          /\ cfg.epsilon < Activity(t1)
          /\ Activity(t1) < Activity(t2)
          /\ RLt(s_old[t1][r], s[t1][r])
          /\ RLt(RSub(s[t1][r], s_old[t1][r]), RSub(s[t2][r], s_old[t2][r]))

\* C5: after normalise every row whose mean was non-zero has row sum
\* ND_mean * R, each entry scaled by ND_mean / (the mean the row had when the
\* call started).
C5_NormaliseRowMean ==
    IsNormalise =>
        \A y \in Tectal :
            LET mean_T == RowMean(s_old[y], NR)
            IN  (IsFinite(mean_T) /\ mean_T # Zero) =>
                    /\ SumTo(s[y], NR) = RMul(cfg.ND_mean, FromInt(NR))
                    /\ \A x \in Retinal :
                          s[y][x] = RMul(RDiv(cfg.ND_mean, mean_T), s_old[y][x])

C5_Witness ==
    /\ IsNormalise
    /\ cfg.ND_mean # Zero
    /\ \E y \in Tectal :
          /\ RLt(Zero, RowMean(s_old[y], NR))
          /\ IsFinite(RowMean(s_old[y], NR))
          /\ \E x1, x2 \in Retinal : s_old[y][x1] # s_old[y][x2] /\ Changed(y, x1)
    /\ \E y \in Tectal : RLt(RowMean(s_old[y], NR), Zero)

SameShape ==
    /\ DOMAIN s = Tectal
    /\ \A t \in Tectal : DOMAIN s[t] = Retinal

\* C6 as claimed: from a non-negative matrix with positive row sums, polarity
\* marking with a factor >= 0, updates with h >= 0 and normalisations to a
\* mean > 0 keep every entry non-negative and the shape (T, R).
C6_NonNegativeFactorGeqZero ==
    (/\ s_init_ok
     /\ RLe(Zero, cfg.PM_strength_increase)
     /\ RLe(Zero, cfg.h)
     /\ RLt(Zero, cfg.ND_mean))
        => (NonNegative(s) /\ SameShape)

\* C6 as amended: the same with a polarity factor > 0.
C6_NonNegativeFactorPositive ==
    (/\ s_init_ok
     /\ RLt(Zero, cfg.PM_strength_increase)
     /\ RLe(Zero, cfg.h)
     /\ RLt(Zero, cfg.ND_mean))
        => (NonNegative(s) /\ PositiveRows(s) /\ SameShape)

C6_Witness ==
    /\ s_init_ok
    /\ RLt(Zero, cfg.PM_strength_increase)
    /\ RLe(Zero, cfg.h)
    /\ RLt(Zero, cfg.ND_mean)
    /\ ncalls = MaxCalls
    /\ IsNormalise
    /\ \E t \in Tectal : \E r \in Retinal : Changed(t, r)
    /\ \E t \in Tectal : \E r \in Retinal : s[t][r] = Zero

\* C7: square markers at the default anchor multiply exactly the four
\* entries S[0,0], S[1,1], S[XT,XR], S[XT+1,XR+1] by the strength factor and
\* leave every other entry unchanged.
C7_DefaultSquareMarksFour ==
    IsSquare(TRUE) =>
        LET marked == {<<0, 0>>, <<1, 1>>, <<XT, XR>>, <<XT + 1, XR + 1>>}
        IN  /\ Cardinality(marked) = 4
            /\ \A t \in Tectal : \A r \in Retinal :
                  s[t][r] = IF <<t, r>> \in marked
                            THEN RMul(s_old[t][r], cfg.PM_strength_increase)
                            ELSE s_old[t][r]

C7_Witness ==
    /\ IsSquare(TRUE)
    /\ cfg.PM_strength_increase = FromInt(5)
    /\ XT # XR
    /\ Cardinality({<<t, r>> \in Tectal \X Retinal : Changed(t, r)}) = 4

\* the four cells of a 2x2 block inside a sheet height rows high and width columns wide
IsInBoundsBlock(PM, width, height) ==
    /\ \A k \in 1..4 : PM[k] \in 0..(width * height - 1)
    /\ \E y \in 0..(height - 2) : \E x \in 0..(width - 2) :
          {PM[k] : k \in 1..4} =
              {y * width + x, y * width + x + 1, (y + 1) * width + x, (y + 1) * width + x + 1}

\* C8: with square markers and a random anchor the four retinal marker
\* indices are the cells of one in-bounds 2x2 block of the retinal sheet,
\* and the four tectal marker indices of one of the tectal sheet.
C8_RandomAnchorInBounds ==
    IsSquare(FALSE) =>
        /\ IsInBoundsBlock(last.R_PM, XR, YR)
        /\ IsInBoundsBlock(last.T_PM, XT, YT)

\* squared Euclidean distance between the normalised positions
\* (row/height, col/width) of tectal neuron t and retinal neuron r
NormalisedDist2(t, r) ==
    LET dy == RSub(Rat(r \div XR, YR), Rat(t \div XT, YT))
        dx == RSub(Rat(r % XR, XR), Rat(t % XT, XT))
    IN  RAdd(RMul(dy, dy), RMul(dx, dx))

\* C9: graded markers scale S[t, r] exactly when d/sqrt(2) < 0.5, i.e. when
\* d*d < 1/2, d the distance between the normalised positions.
C9_GradedScalesWithinHalfMaxSeparation ==
    IsGraded =>
        \A t \in Tectal : \A r \in Retinal :
            (IsFinite(s_old[t][r]) /\ s_old[t][r] # Zero)
                => (Changed(t, r) <=> RLt(NormalisedDist2(t, r), Rat(1, 2)))

\* C10: graded markers multiply by exactly 5 every entry whose neurons have
\* identical normalised positions, leave unchanged every entry at distance
\* >= 0.5*sqrt(2), and scale no entry more than once.
C10_GradedEndpoints ==
    IsGraded =>
        \A t \in Tectal : \A r \in Retinal :
            /\ NormalisedDist2(t, r) = Zero => s[t][r] = RMul(FromInt(5), s_old[t][r])
            /\ RLe(Rat(1, 2), NormalisedDist2(t, r)) => s[t][r] = s_old[t][r]
            /\ \/ s[t][r] = s_old[t][r]
               \/ s[t][r] = RMul(graded_factor(graded_dist(t, r, XT, YT, XR, YR)),
                                 s_old[t][r])

C10_Witness ==
    /\ IsGraded
    /\ \E t \in Tectal : \E r \in Retinal :
          NormalisedDist2(t, r) = Zero /\ t # 0 /\ Changed(t, r)
    /\ \E t \in Tectal : \E r \in Retinal :
          RLe(Rat(1, 2), NormalisedDist2(t, r)) /\ s_old[t][r] # Zero
    /\ \E t \in Tectal : \E r \in Retinal :
          /\ Changed(t, r)
          /\ s[t][r] # RMul(FromInt(5), s_old[t][r])

-----------------------------------------------------------------------------
(* Relaxation of the tectal sheet: tectal_interactions *)

\* The array of tectal interactions, coefficients in units of 1/Q
tectal_modifiers(beta, gamma, delta) ==
    << <<0, 0, 0, delta, 0, 0, 0>>,
       <<0, 0, delta, gamma, delta, 0, 0>>,
       <<0, delta, gamma, beta, gamma, delta, 0>>,
       <<delta, gamma, beta, 0, beta, gamma, delta>>,
       <<0, delta, gamma, beta, gamma, delta, 0>>,
       <<0, 0, delta, gamma, delta, 0, 0>>,
       <<0, 0, 0, delta, 0, 0, 0>> >>

RECURSIVE ConvolveAtWrap(_, _, _, _, _, _, _)
\* boundary='wrap': the cells outside the grid are those of the opposite edge
ConvolveAtWrap(H_star, kernel, j, i, k, xt, yt) ==
    IF k = 0 THEN 0
    ELSE LET m == (k - 1) \div 7
             n == (k - 1) % 7
             jj == (j - (m - 3)) % yt
             ii == (i - (n - 3)) % xt
         IN  ConvolveAtWrap(H_star, kernel, j, i, k - 1, xt, yt)
             + kernel[m + 1][n + 1] * H_star[jj][ii]

RECURSIVE ConvolveAt(_, _, _, _, _, _, _)
\* The first k terms of scipy.signal.convolve2d(H_star, kernel, mode='same',
\* boundary='fill', fillvalue=0) at cell [j, i]:
\* the sum over m, n of kernel[m, n] * H_star[j - (m - 3), i - (n - 3)]
ConvolveAt(H_star, kernel, j, i, k, xt, yt) ==
    IF k = 0 THEN 0
    ELSE LET m == (k - 1) \div 7
             n == (k - 1) % 7
             jj == j - (m - 3)
             ii == i - (n - 3)
         IN  ConvolveAt(H_star, kernel, j, i, k - 1, xt, yt)
             + (IF jj \in 0..(yt - 1) /\ ii \in 0..(xt - 1) /\ kernel[m + 1][n + 1] # 0
                THEN kernel[m + 1][n + 1] * H_star[jj][ii]
                ELSE 0)

convolve2d(H_star, kernel, xt, yt) ==
    [j \in 0..(yt - 1) |->
        [i \in 0..(xt - 1) |-> ConvolveAt(H_star, kernel, j, i, 49, xt, yt) \div Q]]

RECURSIVE SumOfGrid(_, _, _)
\* the sum of the first k cells of the grid, row by row
SumOfGrid(grid, k, xt) ==
    IF k = 0 THEN 0
    ELSE SumOfGrid(grid, k - 1, xt) + grid[(k - 1) \div xt][(k - 1) % xt]

\* np.mean(grid) in units of 1/(Q * XT * YT): the sum of the cells
mean(grid, xt, yt) == SumOfGrid(grid, xt * yt, xt)

\* np.abs(mean_new - mean_old) < 0.005 * mean_old. Over integers a < b / 200
\* is a <= (b - 1) div 200, which keeps the numbers small; both means are in
\* the same unit.
convergence(mean_new, mean_old) ==
    Abs(mean_new - mean_old) <= (mean_old - 1) \div 200

\* dH_dt without the retinal drive
RelaxStepWithoutDrive(grid_initial, grid, xt, yt, dt, beta, gamma, delta, alpha, theta) ==
    LET H_star == threshold(grid, theta, xt, yt)
        conv == convolve2d(H_star, tectal_modifiers(beta, gamma, delta), xt, yt)
    IN  [j \in 0..(yt - 1) |->
            [i \in 0..(xt - 1) |->
                LET dH_dt == conv[j][i] + ((alpha * grid[j][i]) \div Q)
                IN  grid[j][i] + ((dH_dt * dt) \div Q)]]

\* One pass of the body of 'while not converged': the grid after the step
\* H_grid + dH_dt * dt, dH_dt = H_grid_initial + convolution + alpha * H_grid
relax_step(grid_initial, grid, xt, yt, dt, beta, gamma, delta, alpha, theta) ==
    LET H_star == threshold(grid, theta, xt, yt)
        conv == convolve2d(H_star, tectal_modifiers(beta, gamma, delta), xt, yt)
    IN  [j \in 0..(yt - 1) |->
            [i \in 0..(xt - 1) |->
                LET dH_dt == grid_initial[j][i] + conv[j][i] + ((alpha * grid[j][i]) \div Q)
                IN  grid[j][i] + ((dH_dt * dt) \div Q)]]

\* <<XT, YT>> of the relaxed sheets: the script's 8x8 and a small wide one
RelaxSheets == {<<8, 8>>, <<4, 3>>}

\* The parameters of tectal_interactions in units of 1/Q: the script's
\* (dt 1.0, beta 0.05, gamma 0.025, delta -0.06, alpha -0.5, theta 10.0),
\* quiet and verbose, and the same with half the time step
PaperParams ==
    [dt |-> Q, beta |-> Q \div 20, gamma |-> Q \div 40, delta |-> -((3 * Q) \div 50),
     alpha |-> -(Q \div 2), theta |-> 10 * Q, verbose |-> FALSE]

RelaxParams ==
    { PaperParams,
      [PaperParams EXCEPT !.verbose = TRUE],
      [PaperParams EXCEPT !.dt = Q \div 2] }

UniformDrive(level, xt, yt) == [j \in 0..(yt - 1) |-> [i \in 0..(xt - 1) |-> level]]

\* one strong synapse at cell [j0, i0] among weak ones
SpikeDrive(base, spike, j0, i0, xt, yt) ==
    [j \in 0..(yt - 1) |->
        [i \in 0..(xt - 1) |-> IF j = j0 /\ i = i0 THEN spike ELSE base]]

\* cells above theta, at theta and below it
LevelsDrive(theta, xt, yt) ==
    [j \in 0..(yt - 1) |->
        [i \in 0..(xt - 1) |->
            IF j = 0 /\ i = 0 THEN (5 * theta) \div 4
            ELSE IF j = 0 /\ i = 1 THEN theta
            ELSE theta \div 4]]

\* The drives H_grid_initial, in units of 1/Q: no drive, a negative one,
\* uniform ones below and above theta, columns of positive strengths with
\* one strong synapse (0.01 and 500, 0.01 and 160, 2.5 and 12.5), and one
\* with a cell at theta
Drives(xt, yt) ==
    { UniformDrive(0, xt, yt),
      LevelsDrive(10 * Q, xt, yt),
      UniformDrive(-Q, xt, yt),
      UniformDrive((5 * Q) \div 2, xt, yt),
      UniformDrive((25 * Q) \div 2, xt, yt),
      SpikeDrive(Q \div 100, 500 * Q, (yt \div 2) - 1, (xt \div 2) - 1, xt, yt),
      SpikeDrive(Q \div 100, 160 * Q, (yt \div 2) - 1, (xt \div 2) - 1, xt, yt),
      SpikeDrive((5 * Q) \div 2, (25 * Q) \div 2, 0, 0, xt, yt) }

\* The state on entry to tectal_interactions, up to the first test of the loop
RelaxInit ==
    /\ \E sheet \in RelaxSheets : XT = sheet[1] /\ YT = sheet[2]
    /\ XR = XT
    /\ YR = YT
    /\ cfg = Configs[1]
    /\ s = <<>>
    /\ s_old = <<>>
    /\ last = NoCall
    /\ s_init_ok = FALSE
    /\ ncalls = 0
    /\ rp \in RelaxParams
    /\ H_grid_initial \in Drives(XT, YT)
    /\ H_grid = H_grid_initial
    /\ H_grid_before = <<>>
    /\ H_star_grid = <<>>
    /\ new_H_grid = <<>>
    /\ mean_H_grid = 0
    /\ mean_new_H_grid = 0
    /\ converged = FALSE
    /\ n_loops = 0
    /\ pc = "while"
    /\ PolIdle
    /\ MapIdle

\* 'while not converged:' with converged false: the body is entered
RelaxEnter ==
    /\ pc = "while"
    /\ ~converged
    /\ pc' = "body"
    /\ UNCHANGED <<synVars, polVars, mapVars, rp, H_grid_initial, H_grid, H_grid_before,
                   H_star_grid, new_H_grid, mean_H_grid, mean_new_H_grid, converged, n_loops>>

\* The body of the loop. In the verbose branch 'n_loops =+ 1' assigns +1, and
\* the break on n_loops > 20 follows it.
RelaxBody ==
    /\ pc = "body"
    /\ H_grid_before' = H_grid
    /\ H_star_grid' = threshold(H_grid, rp.theta, XT, YT)
    /\ mean_H_grid' = mean(H_grid, XT, YT)
    /\ H_grid' = relax_step(H_grid_initial, H_grid, XT, YT, rp.dt, rp.beta, rp.gamma,
                            rp.delta, rp.alpha, rp.theta)
    /\ new_H_grid' = H_grid'
    /\ mean_new_H_grid' = mean(new_H_grid', XT, YT)
    /\ converged' = convergence(mean_new_H_grid', mean_H_grid')
    /\ n_loops' = IF rp.verbose THEN 1 ELSE n_loops
    /\ pc' = IF rp.verbose /\ n_loops' > 20 THEN "returned" ELSE "while"
    /\ UNCHANGED <<synVars, polVars, mapVars, rp, H_grid_initial>>

\* 'while not converged:' with converged true: return new_H_grid
RelaxReturn ==
    /\ pc = "while"
    /\ converged
    /\ pc' = "returned"
    /\ UNCHANGED <<synVars, polVars, mapVars, rp, H_grid_initial, H_grid, H_grid_before,
                   H_star_grid, new_H_grid, mean_H_grid, mean_new_H_grid, converged, n_loops>>

RelaxNext == RelaxEnter \/ RelaxBody \/ RelaxReturn

\* The loop is sequential code: while it can take a step it takes one.
RelaxFairSpec == RelaxInit /\ [][RelaxNext]_vars /\ WF_vars(RelaxNext)

-----------------------------------------------------------------------------
(* Properties of the relaxation *)

Returned == pc = "returned"

\* C1: the relaxation loop never loops indefinitely: for every drive and
\* every parameter combination, drives with a zero or negative mean
\* included, tectal_interactions eventually returns (converged, or stopped
\* by an iteration guard).
C1_RelaxationAlwaysReturns == <>Returned

AllPositive(grid) == \A j \in DOMAIN grid : \A i \in DOMAIN grid[j] : grid[j][i] > 0

PaperRun ==
    /\ XT = 8
    /\ YT = 8
    /\ [rp EXCEPT !.verbose = FALSE] = PaperParams
    /\ AllPositive(H_grid_initial)

\* C2: with the script's parameters on an 8x8 sheet and a drive of positive
\* synapse strengths the loop terminates, and on its final step the grid
\* means before and after differ by less than 0.5% of the mean before.
C2_PaperRelaxationConverges ==
    PaperRun ~> (Returned /\ convergence(mean_new_H_grid, mean_H_grid))

-----------------------------------------------------------------------------
(* Activation policies: activate_retinal_neurons *)

\* How a call ended: it returned a value, or raised an exception
Return(v) == [outcome |-> "returned", value |-> v]
Raise(e) == [outcome |-> "raised", value |-> e]
NotCalled == [outcome |-> "not called", value |-> <<>>]

\* np.random.choice(array), c the draw
Choice(array, c) == array[(c % Len(array)) + 1]

\* 'RN1 = y1 * XR + x1': the column of 's' of the neuron at (row, col)
linear_index(row, col, width) == row * width + col

\* the row taken modulo the width as well
GridCoordsRowModWidth(index, width) == <<(index \div width) % width, index % width>>

\* 'a = i//XR', 'b = i%XR': the (row, col) of the neuron in column i of 's'
grid_coords(index, width) == <<index \div width, index % width>>

\* the neighbour always taken in the row of (y1, x1)
NeighbourYSameRow(y1, yr, cy) == y1

\* 'y2' of the neighbour of (y1, x1)
neighbour_y(y1, yr, cy) ==
    IF y1 = 0 THEN Choice(<<y1, y1 + 1>>, cy)
    ELSE IF y1 = yr - 1 THEN Choice(<<y1, y1 - 1>>, cy)
    ELSE Choice(<<y1 - 1, y1, y1 + 1>>, cy)

\* the right-hand edge not tested
NeighbourXNoRightEdge(y1, y2, x1, xr, cx) ==
    IF y2 = y1
    THEN (IF x1 = 0 THEN x1 + 1 ELSE Choice(<<x1 - 1, x1 + 1>>, cx))
    ELSE x1

\* 'x2' of the neighbour of (y1, x1)
neighbour_x(y1, y2, x1, xr, cx) ==
    IF y2 = y1
    THEN (IF x1 = 0 THEN x1 + 1
          ELSE IF x1 = xr - 1 THEN x1 - 1
          ELSE Choice(<<x1 - 1, x1 + 1>>, cx))
    ELSE x1

retinal_neuron_pairs(xr, yr, rnd) ==
    LET y2 == neighbour_y(rnd.y1, yr, rnd.cy)
        x2 == neighbour_x(rnd.y1, y2, rnd.x1, xr, rnd.cx)
    IN  <<rnd.y1 * xr + rnd.x1, y2 * xr + x2>>

\* the bottom edge not tested
SquaresNoBottomEdge(xr, yr, rnd) ==
    LET y1 == rnd.y1
        x1 == rnd.x1
        y2 == IF y1 = 0 THEN 1 ELSE Choice(<<y1 - 1, y1 + 1>>, rnd.cy)
        x3 == IF x1 = 0 THEN 1
              ELSE IF x1 = xr - 1 THEN xr - 2
              ELSE Choice(<<x1 - 1, x1 + 1>>, rnd.cx)
    IN  <<y1 * xr + x1, y2 * xr + x1, y1 * xr + x3, y2 * xr + x3>>

retinal_neuron_squares(xr, yr, rnd) ==
    LET y1 == rnd.y1
        x1 == rnd.x1
        y2 == IF y1 = 0 THEN 1
              ELSE IF y1 = yr - 1 THEN yr - 2
              ELSE Choice(<<y1 - 1, y1 + 1>>, rnd.cy)
        x3 == IF x1 = 0 THEN 1
              ELSE IF x1 = xr - 1 THEN xr - 2
              ELSE Choice(<<x1 - 1, x1 + 1>>, rnd.cx)
    IN  <<y1 * xr + x1, y2 * xr + x1, y1 * xr + x3, y2 * xr + x3>>

\* retinal_neurons[i] = y_array[i] * XR + x_array[i]; the floats hold integers
retinal_neuron_sweep(xr, yr, count) ==
    LET sweep_num == count % (yr + xr)
    IN  IF sweep_num < yr
        THEN [i \in 1..yr |-> (i - 1) * xr + sweep_num]
        ELSE [i \in 1..xr |-> (sweep_num - xr) * xr + (i - 1)]

\* rnd holds the draws of the last pass of each rejection loop
retinal_neuron_2_pairs(xr, yr, rnd) ==
    LET y2 == neighbour_y(rnd.y1, yr, rnd.cy)
        x2 == neighbour_x(rnd.y1, y2, rnd.x1, xr, rnd.cx)
        y4 == neighbour_y(rnd.y3, yr, rnd.cy4)
        x4 == neighbour_x(rnd.y3, y4, rnd.x3, xr, rnd.cx4)
    IN  <<rnd.y1 * xr + rnd.x1, y2 * xr + x2, rnd.y3 * xr + rnd.x3, y4 * xr + x4>>

retinal_neuron_singles(xr, yr, rnd) == <<rnd.y1 * xr + rnd.x1>>

retinal_neuron_strobe(xr, yr) == [i \in 1..(xr * yr) |-> i - 1]

\* rnd holds the draws of the last pass of the rejection loop
retinal_neuron_2_singles(xr, yr, rnd) ==
    <<rnd.y1 * xr + rnd.x1, rnd.y3 * xr + rnd.x3>>

\* the left half on every epoch
OccularAlwaysLeft(xr, yr, count) ==
    LET half == xr \div 2
        n == (xr * yr) \div 2
    IN  IF n > yr * half
        THEN Raise("IndexError")
        ELSE Return([i \in 1..n |-> ((i - 1) \div half) * xr + ((i - 1) % half)])

\* XR/2 and XR*YR/2 are integer divisions (the interpreter the script was
\* written for; np.repeat, np.zeros and range take no float).  y_array is
\* np.repeat(np.arange(YR), XR/2), x_array np.tile of the left or the right
\* columns; reading past the end of either raises IndexError.
retinal_neuron_occular_dominance(xr, yr, count) ==
    LET half == xr \div 2
        n == (xr * yr) \div 2
        len_y == yr * half
        len_x == IF count % 2 = 0 THEN half * yr ELSE (xr - half) * yr
    IN  IF n > len_y \/ n > len_x
        THEN Raise("IndexError")
        ELSE Return([i \in 1..n |->
                        ((i - 1) \div half) * xr
                        + (IF count % 2 = 0 THEN (i - 1) % half
                           ELSE half + ((i - 1) % (xr - half)))])

activate_retinal_neurons(pattern, xr, yr, count, rnd) ==
    IF pattern = "pairs" THEN Return(retinal_neuron_pairs(xr, yr, rnd))
    ELSE IF pattern = "squares" THEN Return(retinal_neuron_squares(xr, yr, rnd))
    ELSE IF pattern = "sweep" THEN Return(retinal_neuron_sweep(xr, yr, count))
    ELSE IF pattern = "2_pairs" THEN Return(retinal_neuron_2_pairs(xr, yr, rnd))
    ELSE IF pattern = "singles" THEN Return(retinal_neuron_singles(xr, yr, rnd))
    ELSE IF pattern = "strobe" THEN Return(retinal_neuron_strobe(xr, yr))
    ELSE IF pattern = "2_singles" THEN Return(retinal_neuron_2_singles(xr, yr, rnd))
    ELSE IF pattern = "occular_dominance"
    THEN retinal_neuron_occular_dominance(xr, yr, count)
    ELSE Return(None)

RECURSIVE SumOverNeurons(_, _, _)
\* 'for j in retinal_neurons: H_linear[i] += s[i, j]' after k neurons
SumOverNeurons(row, retinal_neurons, k) ==
    IF k = 0 THEN Zero
    ELSE RAdd(SumOverNeurons(row, retinal_neurons, k - 1),
              row[PyIndex(retinal_neurons[k], Cardinality(DOMAIN row))])

\* H_linear reshaped column by column
ActivateTectalSheetColumnMajor(xt, yt, retinal_neurons, sm) ==
    LET n == Cardinality(DOMAIN sm[0])
    IN  IF \E k \in 1..Len(retinal_neurons) : retinal_neurons[k] >= n \/ retinal_neurons[k] < -n
        THEN Raise("IndexError")
        ELSE Return([j \in 0..(yt - 1) |->
                        [i \in 0..(xt - 1) |->
                            SumOverNeurons(sm[i * yt + j], retinal_neurons, Len(retinal_neurons))]])

\* H_linear[i] is the sum of s[i, j] over the activated neurons (the floats of
\* the arrays hold integers; an index outside -n..n-1 raises IndexError);
\* np.reshape(H_linear, (YT, XT)) puts H_linear[j * XT + i] in cell [j, i]
activate_tectal_sheet(xt, yt, retinal_neurons, sm) ==
    LET n == Cardinality(DOMAIN sm[0])
    IN  IF \E k \in 1..Len(retinal_neurons) : retinal_neurons[k] >= n \/ retinal_neurons[k] < -n
        THEN Raise("IndexError")
        ELSE Return([j \in 0..(yt - 1) |->
                        [i \in 0..(xt - 1) |->
                            SumOverNeurons(sm[j * xt + i], retinal_neurons, Len(retinal_neurons))]])

\* The rejection loops of 2_pairs ('while RN3 == RN1 or RN3 == RN2', 'while
\* RN4 == RN1 or RN4 == RN2') and of 2_singles ('while RN2 == RN1') end
Returns(pattern, neurons) ==
    /\ pattern = "2_pairs" =>
          (neurons.value[3] \notin {neurons.value[1], neurons.value[2]}
           /\ neurons.value[4] \notin {neurons.value[1], neurons.value[2]})
    /\ pattern = "2_singles" => neurons.value[2] # neurons.value[1]

\* largest retinal width and height explored
MaxRetinaDim == 3
\* number of epochs explored for the policies keyed by loop_count
MaxLoops == 7

Patterns ==
    {"pairs", "squares", "sweep", "2_pairs", "singles", "strobe", "2_singles",
     "occular_dominance", "spiral"}

DrawsLoopCount(pattern) == pattern \in {"sweep", "occular_dominance"}

\* The draws of one call: np.random.randint(YR), (XR) and the choices
RandomDraws2(xr, yr) ==
    [y1 : 0..(yr - 1), x1 : 0..(xr - 1), cy : 0..2, cx : 0..1,
     y3 : 0..(yr - 1), x3 : 0..(xr - 1), cy4 : 0..2, cx4 : 0..1]

\* the policies keyed by loop_count draw nothing
NoDraws == [y1 |-> 0, x1 |-> 0, cy |-> 0, cx |-> 0, y3 |-> 0, x3 |-> 0, cy4 |-> 0, cx4 |-> 0]

\* run() called with a retinal sheet, a policy name and a marker kind; the
\* tectal sheet is 2 or 3 wide and 2 high and the matrix the initial one
PolInit ==
    /\ XT \in 2..3
    /\ YT = 2
    /\ XR \in 1..MaxRetinaDim
    /\ YR \in 1..MaxRetinaDim
    /\ cfg = Configs[1]
    /\ s = initialise_synaptic_connections(1, XT, YT, XR, YR)
    /\ s_old = s
    /\ last = NoCall
    /\ s_init_ok = TRUE
    /\ ncalls = 0
    /\ RelaxIdle
    /\ MapIdle
    /\ activity_pattern \in Patterns
    /\ PM_kind \in {"square", "graded", "circle"}
    \* the default anchor needs a 2x2 block on the retina
    /\ PM_kind = "square" => (XR >= 2 /\ YR >= 2)
    /\ loop_count = 0
    /\ activation = NotCalled
    /\ drawn = [y1 |-> 0, x1 |-> 0]
    /\ tectal_sheet = NotCalled
    /\ two_pairs = <<>>
    /\ s_marked = NotCalled

\* s = implement_polarity_markers(PM_type, s, ...), once, before the epochs
MarkPolarity ==
    /\ s_marked.outcome = "not called"
    /\ s_marked' = Return(implement_polarity_markers(PM_kind, s, TRUE, XR, YR, XT, YT,
                            cfg.PM_strength_increase, <<0, 0, 0, 0>>))
    /\ UNCHANGED <<synVars, relaxVars, mapVars, activity_pattern, loop_count,
                   activation, drawn, tectal_sheet, two_pairs, PM_kind>>

\* One epoch's retinal_neurons = activate_retinal_neurons(activity_pattern,
\* XR, YR, loop_count).  A policy that ignores loop_count and keeps nothing
\* between calls is explored for one epoch.
ActivateRetinalNeurons ==
    /\ s_marked.outcome # "not called"
    /\ loop_count < MaxLoops
    /\ ~DrawsLoopCount(activity_pattern) => loop_count = 0
    /\ \E rnd \in (IF DrawsLoopCount(activity_pattern) \/ activity_pattern \notin Patterns \ {"spiral"}
                  THEN {NoDraws} ELSE RandomDraws2(XR, YR)) :
          LET neurons == activate_retinal_neurons(activity_pattern, XR, YR, loop_count, rnd)
          IN  /\ Returns(activity_pattern, neurons)
              /\ activation' = neurons
              /\ drawn' = [y1 |-> rnd.y1, x1 |-> rnd.x1]
    /\ loop_count' = loop_count + 1
    /\ tectal_sheet' = NotCalled
    /\ UNCHANGED <<synVars, relaxVars, mapVars, activity_pattern, two_pairs, s_marked, PM_kind>>

\* H_grid_initial = activate_tectal_sheet(XT, YT, retinal_neurons, s) of the
\* epoch, with the marked matrix and the neurons just activated
ActivateTectalSheet ==
    /\ PM_kind \in {"square", "graded"}
    /\ s_marked.outcome = "returned"
    /\ activity_pattern \in Patterns \ {"spiral"}
    /\ activation.outcome = "returned"
    /\ tectal_sheet.outcome = "not called"
    /\ tectal_sheet' = activate_tectal_sheet(XT, YT, activation.value, s_marked.value)
    /\ UNCHANGED <<synVars, relaxVars, mapVars, activity_pattern, loop_count, activation, drawn,
                   two_pairs, s_marked, PM_kind>>

PolNext == MarkPolarity \/ ActivateRetinalNeurons \/ ActivateTectalSheet

PolicySpec == PolInit /\ [][PolNext]_vars

-----------------------------------------------------------------------------
(* The rejection loops of retinal_neuron_2_pairs, draw by draw *)

\* retinal_neuron_2_pairs(XR, YR) is called
TwoPairsInit ==
    /\ XT = 2
    /\ YT = 2
    /\ XR \in 1..MaxRetinaDim
    /\ YR \in 1..MaxRetinaDim
    /\ cfg = Configs[1]
    /\ s = <<>>
    /\ s_old = <<>>
    /\ last = NoCall
    /\ s_init_ok = FALSE
    /\ ncalls = 0
    /\ RelaxIdle
    /\ MapIdle
    /\ activity_pattern = "2_pairs"
    /\ PM_kind = ""
    /\ loop_count = 0
    /\ activation = NotCalled
    /\ drawn = [y1 |-> 0, x1 |-> 0]
    /\ tectal_sheet = NotCalled
    /\ s_marked = NotCalled
    /\ two_pairs = [pc |-> "first pair", RN1 |-> 0, RN2 |-> 0, RN3 |-> 0, RN4 |-> 0, y3 |-> 0, x3 |-> 0]

TwoPairsFrame ==
    UNCHANGED <<synVars, relaxVars, mapVars, activity_pattern, loop_count, tectal_sheet, s_marked,
                PM_kind>>

\* RN1 and RN2 are drawn; 'RN3 = RN1'
TwoPairsFirstPair ==
    /\ two_pairs.pc = "first pair"
    /\ \E y1 \in 0..(YR - 1), x1 \in 0..(XR - 1), cy \in 0..2, cx \in 0..1 :
          LET y2 == neighbour_y(y1, YR, cy)
              x2 == neighbour_x(y1, y2, x1, XR, cx)
          IN  /\ two_pairs' = [two_pairs EXCEPT !.pc = "while RN3",
                                                !.RN1 = linear_index(y1, x1, XR),
                                                !.RN2 = linear_index(y2, x2, XR),
                                                !.RN3 = linear_index(y1, x1, XR)]
              /\ drawn' = [y1 |-> y1, x1 |-> x1]
    /\ UNCHANGED activation
    /\ TwoPairsFrame

\* one pass of 'while RN3 == RN1 or RN3 == RN2'
TwoPairsDrawThird ==
    /\ two_pairs.pc = "while RN3"
    /\ two_pairs.RN3 = two_pairs.RN1 \/ two_pairs.RN3 = two_pairs.RN2
    /\ \E y3 \in 0..(YR - 1), x3 \in 0..(XR - 1) :
          two_pairs' = [two_pairs EXCEPT !.y3 = y3, !.x3 = x3, !.RN3 = linear_index(y3, x3, XR)]
    /\ UNCHANGED <<activation, drawn>>
    /\ TwoPairsFrame

\* the first loop ends; 'RN4 = RN1'
TwoPairsThirdAccepted ==
    /\ two_pairs.pc = "while RN3"
    /\ ~(two_pairs.RN3 = two_pairs.RN1 \/ two_pairs.RN3 = two_pairs.RN2)
    /\ two_pairs' = [two_pairs EXCEPT !.pc = "while RN4", !.RN4 = two_pairs.RN1]
    /\ UNCHANGED <<activation, drawn>>
    /\ TwoPairsFrame

\* one pass of 'while RN4 == RN1 or RN4 == RN2': a neighbour of (y3, x3)
TwoPairsDrawFourth ==
    /\ two_pairs.pc = "while RN4"
    /\ two_pairs.RN4 = two_pairs.RN1 \/ two_pairs.RN4 = two_pairs.RN2
    /\ \E cy \in 0..2, cx \in 0..1 :
          LET y4 == neighbour_y(two_pairs.y3, YR, cy)
              x4 == neighbour_x(two_pairs.y3, y4, two_pairs.x3, XR, cx)
          IN  two_pairs' = [two_pairs EXCEPT !.RN4 = linear_index(y4, x4, XR)]
    /\ UNCHANGED <<activation, drawn>>
    /\ TwoPairsFrame

\* the second loop ends and the four neurons are returned
TwoPairsReturn ==
    /\ two_pairs.pc = "while RN4"
    /\ ~(two_pairs.RN4 = two_pairs.RN1 \/ two_pairs.RN4 = two_pairs.RN2)
    /\ two_pairs' = [two_pairs EXCEPT !.pc = "returned"]
    /\ activation' = Return(<<two_pairs.RN1, two_pairs.RN2, two_pairs.RN3, two_pairs.RN4>>)
    /\ UNCHANGED drawn
    /\ TwoPairsFrame

TwoPairsNext ==
    \/ TwoPairsFirstPair
    \/ TwoPairsDrawThird
    \/ TwoPairsThirdAccepted
    \/ TwoPairsDrawFourth
    \/ TwoPairsReturn

\* a draw that ends the loop it is made in
ThirdFree == two_pairs'.RN3 \notin {two_pairs.RN1, two_pairs.RN2}
FourthFree == two_pairs'.RN4 \notin {two_pairs.RN1, two_pairs.RN2}

\* The code is sequential, and the draws are fair: an outcome of
\* np.random.randint or np.random.choice that is possible in every pass of a
\* loop is drawn in some pass.
TwoPairsFairSpec ==
    /\ TwoPairsInit
    /\ [][TwoPairsNext]_vars
    /\ WF_vars(TwoPairsNext)
    /\ SF_vars(TwoPairsDrawThird /\ ThirdFree)
    /\ SF_vars(TwoPairsDrawFourth /\ FourthFree)

-----------------------------------------------------------------------------
(* Properties of the activation policies *)

Activated(pattern) == activity_pattern = pattern /\ activation.outcome = "returned"

InSheet(n) == n \in 0..(XR * YR - 1)

\* Manhattan distance between the grid positions of retinal neurons a and b
Manhattan(a, b) == Abs((a \div XR) - (b \div XR)) + Abs((a % XR) - (b % XR))

Elements(array) == {array[k] : k \in 1..Len(array)}

\* C11: on a retinal sheet at least 2 wide and 2 high the pairs policy
\* returns two distinct in-bounds indices whose grid positions are at
\* Manhattan distance exactly 1.
C11_PairsAdjacentInBounds ==
    (Activated("pairs") /\ XR >= 2 /\ YR >= 2) =>
        LET RN == activation.value
        IN  /\ Len(RN) = 2
            /\ RN[1] # RN[2]
            /\ InSheet(RN[1])
            /\ InSheet(RN[2])
            /\ Manhattan(RN[1], RN[2]) = 1

C11_Witness ==
    /\ Activated("pairs")
    /\ XR >= 2
    /\ YR >= 2
    /\ activation.value[1] = XR * YR - 1
    /\ activation.value[2] = XR * YR - 2

\* C12: on a retinal sheet at least 2 wide and 2 high the squares policy
\* returns four pairwise distinct in-bounds indices, the cells
\* {y1, y2} x {x1, x3} of one 2x2 block.
C12_SquaresBlock ==
    (Activated("squares") /\ XR >= 2 /\ YR >= 2) =>
        LET RN == activation.value
        IN  /\ Len(RN) = 4
            /\ Cardinality(Elements(RN)) = 4
            /\ \A k \in 1..4 : InSheet(RN[k])
            /\ IsInBoundsBlock(RN, XR, YR)
            /\ RN[2] % XR = RN[1] % XR
            /\ Abs((RN[2] \div XR) - (RN[1] \div XR)) = 1
            /\ RN[3] \div XR = RN[1] \div XR
            /\ Abs((RN[3] % XR) - (RN[1] % XR)) = 1
            /\ RN[4] \div XR = RN[2] \div XR
            /\ RN[4] % XR = RN[3] % XR

C12_Witness ==
    /\ Activated("squares")
    /\ XR = MaxRetinaDim
    /\ YR = MaxRetinaDim
    /\ activation.value[1] = XR * YR - 1
    /\ activation.value[4] = XR * YR - XR - 2

\* C13: whenever the 2_pairs policy returns, its four indices are pairwise
\* distinct and in-bounds, and within each pair the neurons are at Manhattan
\* distance 1.
C13_TwoPairsDistinctInBounds ==
    Activated("2_pairs") =>
        LET RN == activation.value
        IN  /\ Len(RN) = 4
            /\ Cardinality(Elements(RN)) = 4
            /\ \A k \in 1..4 : InSheet(RN[k])
            /\ Manhattan(RN[1], RN[2]) = 1
            /\ Manhattan(RN[3], RN[4]) = 1

\* the indices of column x, and of row y, of the retinal sheet
ColumnOf(x) == {y * XR + x : y \in 0..(YR - 1)}
RowOf(y) == {y * XR + x : x \in 0..(XR - 1)}

\* C14: with k = epoch_index mod (XR+YR) the sweep policy returns exactly
\* the YR indices of column k when k < XR and exactly the XR indices of row
\* k - XR otherwise.
C14_SweepColumnsThenRows ==
    Activated("sweep") =>
        LET k == (loop_count - 1) % (XR + YR)
            RN == activation.value
        IN  IF k < XR
            THEN Len(RN) = YR /\ Elements(RN) = ColumnOf(k)
            ELSE Len(RN) = XR /\ Elements(RN) = RowOf(k - XR)

\* the indices of columns lo..hi over all rows
ColumnsOf(lo, hi) == {y * XR + x : y \in 0..(YR - 1), x \in lo..hi}

\* C15: on a sheet of even width occular_dominance returns on every even
\* epoch exactly the XR*YR/2 indices of columns 0..XR/2-1 and on every odd
\* epoch exactly those of columns XR/2..XR-1; the two sets are disjoint,
\* cover the sheet, and alternate from one epoch to the next.
C15_OccularDominanceAlternates ==
    (activity_pattern = "occular_dominance" /\ XR % 2 = 0 /\ loop_count > 0) =>
        LET epoch == loop_count - 1
            next == retinal_neuron_occular_dominance(XR, YR, epoch + 1)
        IN  /\ activation.outcome = "returned"
            /\ next.outcome = "returned"
            /\ Len(activation.value) = (XR * YR) \div 2
            /\ Elements(activation.value) =
                   (IF epoch % 2 = 0 THEN ColumnsOf(0, (XR \div 2) - 1)
                    ELSE ColumnsOf(XR \div 2, XR - 1))
            /\ Elements(activation.value) \cap Elements(next.value) = {}
            /\ Elements(activation.value) \cup Elements(next.value) = 0..(XR * YR - 1)

C15_Witness ==
    /\ Activated("occular_dominance")
    /\ XR % 2 = 0
    /\ YR >= 2
    /\ loop_count >= 4
    /\ loop_count % 2 = 0
    /\ XR * YR - 1 \in Elements(activation.value)

\* C16: an activation policy name or polarity-marker kind outside the
\* recognised set is rejected with an error: for such a name neither
\* activate_retinal_neurons nor implement_polarity_markers completes normally.
C16_UnknownNamesRejected ==
    /\ (activity_pattern \notin (Patterns \ {"spiral"}) /\ activation.outcome # "not called")
          => activation.outcome = "raised"
    /\ (PM_kind \notin {"square", "graded"} /\ s_marked.outcome # "not called")
          => s_marked.outcome = "raised"

-----------------------------------------------------------------------------
(* Map metrics and the repeats of run: calculate_COM, quality, run *)

RECURSIVE SumAlongRow(_, _, _, _)
\* the sum over x < k of weight[x] * grid_row[x]
SumAlongRow(grid_row, weight, k, xr) ==
    IF k = 0 THEN Zero
    ELSE RAdd(SumAlongRow(grid_row, weight, k - 1, xr),
              RMul(FromInt(weight[k - 1]), grid_row[k - 1]))

RECURSIVE SumOverGrid(_, _, _, _, _)
\* the sum over the first k rows y, and all x, of (y or x or 1) * grid[y][x]
SumOverGrid(grid, axis, k, xr, yr) ==
    IF k = 0 THEN Zero
    ELSE RAdd(SumOverGrid(grid, axis, k - 1, xr, yr),
              SumAlongRow(grid[k - 1],
                          [x \in 0..(xr - 1) |->
                              IF axis = 0 THEN k - 1 ELSE IF axis = 1 THEN x ELSE 1],
                          xr, xr))

\* scipy.ndimage.measurements.center_of_mass of a YR x XR grid: for each
\* axis the sum of coordinate * value over the sum of the values (a float
\* division: x/0 is inf or nan)
center_of_mass(grid, xr, yr) ==
    LET normalizer == SumOverGrid(grid, 2, yr, xr, yr)
    IN  << RDiv(SumOverGrid(grid, 0, yr, xr, yr), normalizer),
           RDiv(SumOverGrid(grid, 1, yr, xr, yr), normalizer) >>

\* COM_X and COM_Y swapped on storing
CalculateCOMSwapped(sm, xt, yt, xr, yr) ==
    LET COM(tectal_neuron) ==
            center_of_mass([y \in 0..(yr - 1) |->
                               [x \in 0..(xr - 1) |-> sm[tectal_neuron][y * xr + x]]],
                           xr, yr)
    IN  << [tectal_neuron \in 0..(xt * yt - 1) |-> COM(tectal_neuron)[1]],
           [tectal_neuron \in 0..(xt * yt - 1) |-> COM(tectal_neuron)[2]] >>

\* a row that sums to zero left at the zeros the arrays were created with
CalculateCOMZeroDefault(sm, xt, yt, xr, yr) ==
    LET COM(tectal_neuron) ==
            IF SumTo(sm[tectal_neuron], xr * yr) = Zero
            THEN <<Zero, Zero>>
            ELSE center_of_mass([y \in 0..(yr - 1) |->
                                    [x \in 0..(xr - 1) |-> sm[tectal_neuron][y * xr + x]]],
                                xr, yr)
    IN  << [tectal_neuron \in 0..(xt * yt - 1) |-> COM(tectal_neuron)[2]],
           [tectal_neuron \in 0..(xt * yt - 1) |-> COM(tectal_neuron)[1]] >>

\* <<COM_X, COM_Y>>; COM_grid is np.reshape(s[tectal_neuron, :], (YR, XR))
calculate_COM(sm, xt, yt, xr, yr) ==
    LET COM(tectal_neuron) ==
            center_of_mass([y \in 0..(yr - 1) |->
                               [x \in 0..(xr - 1) |-> sm[tectal_neuron][y * xr + x]]],
                           xr, yr)
    IN  << [tectal_neuron \in 0..(xt * yt - 1) |-> COM(tectal_neuron)[2]],
           [tectal_neuron \in 0..(xt * yt - 1) |-> COM(tectal_neuron)[1]] >>

\* math.sqrt(x) of a rational x >= 0, of inf and of nan, on the same grid as Sqrt
math_sqrt(x) ==
    IF ~IsFinite(x) THEN x
    ELSE Norm(SqrtSearch(0, SqrtRes * ((x[1] \div x[2]) + 1), x), SqrtRes)

\* np.linspace(0, stop, num)[i]
linspace(stop, num, i) == IF num = 1 THEN Zero ELSE Rat(i * stop, num - 1)

\* perfect_x[i] = np.tile(np.linspace(0, XR-1, num=XT), YT)[i]
perfect_x(i, xt, xr) == linspace(xr - 1, xt, i % xt)

\* perfect_y[i] = np.repeat(np.linspace(0, YR-1, num=YT), XT)[i]
perfect_y(i, xt, yt, yr) == linspace(yr - 1, yt, i \div xt)

\* 'disp' of tectal neuron i, normalised by max_disp
quality_disp(i, xt, yt, xr, yr, com_x, com_y) ==
    LET dx == RSub(com_x[i], perfect_x(i, xt, xr))
        dy == RSub(com_y[i], perfect_y(i, xt, yt, yr))
        disp_squared == RAdd(RMul(dx, dx), RMul(dy, dy))
    IN  RDiv(math_sqrt(disp_squared), math_sqrt(FromInt(xr + yr)))

RECURSIVE quality_sum(_, _, _, _, _, _, _)
\* q after the first k passes of 'for i in range(XT*YT)'
quality_sum(k, xt, yt, xr, yr, com_x, com_y) ==
    IF k = 0 THEN Zero
    ELSE RAdd(quality_sum(k - 1, xt, yt, xr, yr, com_x, com_y),
              quality_disp(k - 1, xt, yt, xr, yr, com_x, com_y))

\* the final q = 1 - q left out
QualityNoComplement(xt, yt, xr, yr, com_x, com_y) ==
    RDiv(quality_sum(xt * yt, xt, yt, xr, yr, com_x, com_y), FromInt(xt * yt))

quality(xt, yt, xr, yr, com_x, com_y) ==
    RSub(FromInt(1),
         RDiv(quality_sum(xt * yt, xt, yt, xr, yr, com_x, com_y), FromInt(xt * yt)))

\* largest num_repeats explored
MaxRepeats == 2

\* weight 1 - |x - p| of the cells next to position p on an axis, 0 elsewhere
Hat(x, p) ==
    LET d == RSub(FromInt(x), p)
        a == IF RLt(d, Zero) THEN RNeg(d) ELSE d
    IN  IF RLt(a, FromInt(1)) THEN RSub(FromInt(1), a) ELSE Zero

\* a matrix whose receptive fields sit on the ideal linear map
IdealMatrix(xt, yt, xr, yr) ==
    [t \in 0..(xt * yt - 1) |->
        [r \in 0..(xr * yr - 1) |->
            RMul(Hat(r % xr, perfect_x(t, xt, xr)),
                 Hat(r \div xr, perfect_y(t, xt, yt, yr)))]]

\* a matrix with a row of zeros and a row of entries that cancel
ZeroRowsMatrix(xt, yt, xr, yr) ==
    [t \in 0..(xt * yt - 1) |->
        [r \in 0..(xr * yr - 1) |->
            IF t = 0 THEN Zero
            ELSE IF t = 1 THEN (IF r = 0 THEN FromInt(-1) ELSE IF r = xr THEN FromInt(1) ELSE Zero)
            ELSE FromInt(1 + ((t + r) % 3))]]

\* a matrix whose receptive fields sit in the corner farthest from the ideal
FarCornerMatrix(xt, yt, xr, yr) ==
    [t \in 0..(xt * yt - 1) |->
        [r \in 0..(xr * yr - 1) |->
            LET x == IF RLt(Rat(xr - 1, 2), perfect_x(t, xt, xr)) THEN 0 ELSE xr - 1
                y == IF RLt(Rat(yr - 1, 2), perfect_y(t, xt, yt, yr)) THEN 0 ELSE yr - 1
            IN  IF r = y * xr + x THEN FromInt(1) ELSE Zero]]

\* The matrices project_cython_v8.run may hand back.  The module is not in the
\* repository; it returns the synapse matrix after num_loops epochs.
project_cython_v8_run(xt, yt, xr, yr) ==
    { initialise_synaptic_connections(0, xt, yt, xr, yr),
      initialise_synaptic_connections(1, xt, yt, xr, yr),
      initialise_synaptic_connections(2, xt, yt, xr, yr),
      IdealMatrix(xt, yt, xr, yr),
      FarCornerMatrix(xt, yt, xr, yr),
      ZeroRowsMatrix(xt, yt, xr, yr) }

\* run() up to the first test of 'while repeat_count <= num_repeats'
RunInit ==
    /\ \E sheet \in TectalSheets : XT = sheet[1] /\ YT = sheet[2]
    /\ \E sheet \in RetinalSheets : XR = sheet[1] /\ YR = sheet[2]
    /\ cfg = Configs[1]
    /\ s = <<>>
    /\ s_old = <<>>
    /\ last = NoCall
    /\ s_init_ok = FALSE
    /\ ncalls = 0
    /\ RelaxIdle
    /\ PolIdle
    /\ num_repeats \in 1..MaxRepeats
    /\ repeat_count = 1
    /\ quality_matrix = [k \in 0..(num_repeats - 1) |-> Zero]
    /\ COM_X = <<>>
    /\ COM_Y = <<>>
    /\ q = Zero
    /\ q_history = <<>>
    /\ run_result = NotCalled
    /\ run_pc = "loop"

\* one pass of the loop of run()
RunRepeat ==
    /\ run_pc = "loop"
    /\ repeat_count <= num_repeats
    /\ \E matrix \in project_cython_v8_run(XT, YT, XR, YR) :
          LET COM == calculate_COM(matrix, XT, YT, XR, YR)
              quality_now == quality(XT, YT, XR, YR, COM[1], COM[2])
          IN  /\ s' = matrix
              /\ COM_X' = COM[1]
              /\ COM_Y' = COM[2]
              /\ q' = quality_now
              /\ quality_matrix' = [quality_matrix EXCEPT ![repeat_count - 1] = quality_now]
              /\ q_history' = Append(q_history, quality_now)
    /\ repeat_count' = repeat_count + 1
    /\ UNCHANGED <<XT, YT, XR, YR, cfg, s_old, last, s_init_ok, ncalls, relaxVars, polVars,
                   num_repeats, run_result, run_pc>>

\* the loop ends; the statistics are printed and run() falls off its end
RunReturn ==
    /\ run_pc = "loop"
    /\ repeat_count > num_repeats
    /\ run_result' = Return(None)
    /\ run_pc' = "returned"
    /\ UNCHANGED <<synVars, relaxVars, polVars, num_repeats, repeat_count, quality_matrix,
                   COM_X, COM_Y, q, q_history>>

RunNext == RunRepeat \/ RunReturn

RunSpec == RunInit /\ [][RunNext]_vars

-----------------------------------------------------------------------------
(* Claims about calculate_COM, quality and run *)

\* a repeat of run has computed COM_X, COM_Y and q from s
Computed == run_pc # "idle" /\ Len(q_history) > 0

RECURSIVE Moment(_, _, _, _)
\* the sum over r < k of (r mod xr) * row[r]  (axis 1)  or  (r div xr) * row[r]  (axis 0)
Moment(row, k, xr, axis) ==
    IF k = 0 THEN Zero
    ELSE RAdd(Moment(row, k - 1, xr, axis),
              RMul(FromInt(IF axis = 1 THEN (k - 1) % xr ELSE (k - 1) \div xr), row[k - 1]))

SingleEntryAt(row, r, n) == row[r] # Zero /\ \A r2 \in 0..(n - 1) : r2 # r => row[r2] = Zero

NonNegativeRow(row, n) == \A r \in 0..(n - 1) : ~RLt(row[r], Zero)

ZeroSum(row, n) == SumTo(row, n) = Zero

\* C17: for every tectal neuron whose row of s has a non-zero sum, COM_X is
\* the sum of (r mod XR) * s[t][r] over the row sum and COM_Y the sum of
\* (r div XR) * s[t][r] over the row sum; a row with a single non-zero entry at
\* r gives (r mod XR, r div XR); a row of non-negative entries gives a point
\* inside [0, XR-1] x [0, YR-1].
C17_COMIsWeightedCentroid ==
    Computed =>
        \A t \in 0..(XT * YT - 1) :
            ~ZeroSum(s[t], XR * YR) =>
                /\ COM_X[t] = RDiv(Moment(s[t], XR * YR, XR, 1), SumTo(s[t], XR * YR))
                /\ COM_Y[t] = RDiv(Moment(s[t], XR * YR, XR, 0), SumTo(s[t], XR * YR))
                /\ \A r \in 0..(XR * YR - 1) :
                      SingleEntryAt(s[t], r, XR * YR) =>
                          COM_X[t] = FromInt(r % XR) /\ COM_Y[t] = FromInt(r \div XR)
                /\ NonNegativeRow(s[t], XR * YR) =>
                      /\ RLe(Zero, COM_X[t]) /\ RLe(COM_X[t], FromInt(XR - 1))
                      /\ RLe(Zero, COM_Y[t]) /\ RLe(COM_Y[t], FromInt(YR - 1))

\* a matrix with a single-entry row off the diagonal of the sheet and a
\* non-negative row of several entries whose centroid is not a grid point
C17_Witness ==
    /\ Computed
    /\ \E t \in 0..(XT * YT - 1) : \E r \in 0..(XR * YR - 1) :
          SingleEntryAt(s[t], r, XR * YR) /\ r % XR # r \div XR
    /\ \E t \in 0..(XT * YT - 1) :
          /\ NonNegativeRow(s[t], XR * YR)
          /\ ~ZeroSum(s[t], XR * YR)
          /\ COM_X[t][2] > 1
          /\ COM_X[t] # COM_Y[t]

\* C18: for a tectal neuron whose row of s sums to zero calculate_COM yields
\* no ordinary coordinate: both COM_X and COM_Y are nan or infinite, so the
\* neuron is never reported at (0, 0).
C18_ZeroSumRowIsDegenerate ==
    Computed =>
        \A t \in 0..(XT * YT - 1) :
            ZeroSum(s[t], XR * YR) =>
                /\ ~IsFinite(COM_X[t])
                /\ ~IsFinite(COM_Y[t])
                /\ <<COM_X[t], COM_Y[t]>> # <<Zero, Zero>>

\* a row of zeros and a zero-sum row with non-zero entries have been measured
C18_Witness ==
    /\ Computed
    /\ \E t \in 0..(XT * YT - 1) : \A r \in 0..(XR * YR - 1) : s[t][r] = Zero
    /\ \E t \in 0..(XT * YT - 1) :
          ZeroSum(s[t], XR * YR) /\ \E r \in 0..(XR * YR - 1) : s[t][r] # Zero

\* COM_X, COM_Y are the ideal linear mapping
IdealMapping ==
    \A i \in 0..(XT * YT - 1) :
        /\ COM_X[i] = Rat((i % XT) * (XR - 1), XT - 1)
        /\ COM_Y[i] = Rat((i \div XT) * (YR - 1), YT - 1)

\* C19: quality is exactly 1 when COM_X, COM_Y are the ideal linear mapping,
\* and quality is never greater than 1.
C19_QualityOneForIdealAtMostOne ==
    Computed =>
        /\ IdealMapping => q = FromInt(1)
        /\ ~RGt(q, FromInt(1))

\* quality has been computed for the ideal mapping on sheets whose retinal
\* and tectal widths differ
C19_Witness == Computed /\ IdealMapping /\ q = FromInt(1) /\ XT # XR

\* C20: run returns the final synapse matrix together with the quality
\* scalars, and the quality of repeat k is in slot k-1 of them.
C20_RunReturnsMatrixAndQualities ==
    run_pc = "returned" =>
        /\ run_result.outcome = "returned"
        /\ run_result.value # None
        /\ run_result.value = <<s, quality_matrix>>
        /\ \A k \in 1..num_repeats : quality_matrix[k - 1] = q_history[k]

\* every repeat stores its quality in its own slot (the half of C20 the code keeps)
SlotsKept == \A k \in 1..Len(q_history) : quality_matrix[k - 1] = q_history[k]

-----------------------------------------------------------------------------
(* Grid geometry *)

Positions(width, height) == (0..(height - 1)) \X (0..(width - 1))

RoundTrips(width, height) ==
    \A p \in Positions(width, height) :
        grid_coords(linear_index(p[1], p[2], width), width) = p

Injective(width, height) ==
    \A p1, p2 \in Positions(width, height) :
        p1 # p2 => linear_index(p1[1], p1[2], width) # linear_index(p2[1], p2[2], width)

\* C21: on the retinal and the tectal sheet the index row * width + col decodes
\* by (index div width, index mod width) to (row, col) again, distinct
\* positions have distinct indices, and the first neuron 'pairs' returns
\* decodes to the (y1, x1) that was drawn.
C21_LinearIndexRoundTrip ==
    /\ RoundTrips(XR, YR)
    /\ RoundTrips(XT, YT)
    /\ Injective(XR, YR)
    /\ Injective(XT, YT)
    /\ Activated("pairs") =>
          /\ activation.value[1] = linear_index(drawn.y1, drawn.x1, XR)
          /\ grid_coords(activation.value[1], XR) = <<drawn.y1, drawn.x1>>

\* 'pairs' has drawn a neuron below row XR on a sheet higher than wide
C21_Witness ==
    /\ Activated("pairs")
    /\ YR > XR
    /\ drawn.y1 >= XR
    /\ drawn.x1 > 0

-----------------------------------------------------------------------------
(* Properties of one relaxation step *)

\* a pass of the loop has run
Stepped == DOMAIN H_star_grid # {}

Cells == (0..(YT - 1)) \X (0..(XT - 1))

\* C22: after a pass the loop is converged exactly when the grid means
\* before and after differ by less than 0.5% of the magnitude of the mean
\* before: |mean_new - mean_old| < 0.005 * |mean_old|, a negative mean before
\* included.
C22_ConvergedIffRelativeChangeSmall ==
    Stepped =>
        (converged <=> Abs(mean_new_H_grid - mean_H_grid) <= (Abs(mean_H_grid) - 1) \div 200)

\* C23: with verbose diagnostics on, tectal_interactions returns even when
\* the convergence test never succeeds.
C23_VerboseCapExits == rp.verbose ~> Returned

\* H_grid + dt * (H_grid_initial + conv + alpha * H_grid) at a cell, each
\* product rounded as the model rounds it
EulerStep(cell, conv) ==
    LET j == cell[1]
        i == cell[2]
        dH_dt == H_grid_initial[j][i] + conv[j][i] + ((rp.alpha * H_grid_before[j][i]) \div Q)
    IN  H_grid_before[j][i] + ((dH_dt * rp.dt) \div Q)

ThresholdedBefore == [j \in 0..(YT - 1) |-> [i \in 0..(XT - 1) |->
                         IF H_grid_before[j][i] - rp.theta > 0 THEN H_grid_before[j][i] - rp.theta ELSE 0]]

\* C24: each pass leaves H_grid = H + dt * (H0 + conv(max(H - theta, 0)) +
\* alpha * H) with H the grid before the pass and H0 = H_grid_initial; and no
\* step of tectal_interactions changes H_grid_initial.
C24_StepIsEulerUpdate ==
    /\ [](Stepped =>
            \A cell \in Cells :
                H_grid[cell[1]][cell[2]] =
                    EulerStep(cell, convolve2d(ThresholdedBefore,
                                               tectal_modifiers(rp.beta, rp.gamma, rp.delta), XT, YT)))
    /\ [][H_grid_initial' = H_grid_initial]_vars

\* a second pass has run on a grid the first pass changed, with cells above theta
C24_Witness ==
    /\ Stepped
    /\ H_grid_before # H_grid_initial
    /\ H_grid # H_grid_before
    /\ \E cell \in Cells : H_star_grid[cell[1]][cell[2]] > 0
    /\ \E cell \in Cells : H_grid_initial[cell[1]][cell[2]] > 0

\* the coefficient at Manhattan distance d
Coefficient(d) == IF d = 1 THEN rp.beta ELSE IF d = 2 THEN rp.gamma ELSE IF d = 3 THEN rp.delta ELSE 0

RECURSIVE LateralSum(_, _, _)
\* the sum over the first k cells (jj, ii) of the grid of
\* Coefficient(|j - jj| + |i - ii|) * H_star[jj][ii]
LateralSum(j, i, k) ==
    IF k = 0 THEN 0
    ELSE LET jj == (k - 1) \div XT
             ii == (k - 1) % XT
         IN  LateralSum(j, i, k - 1) + Coefficient(Abs(j - jj) + Abs(i - ii)) * H_star_grid[jj][ii]

\* C25: the kernel entry at offset (di, dj) from the centre is beta, gamma,
\* delta at Manhattan distance 1, 2, 3 and 0 elsewhere, the centre included;
\* the convolution at a cell is the sum of coefficient * thresholded activity
\* over the cells of the grid only, and that sum is what the pass adds.
C25_KernelByManhattanZeroFill ==
    /\ \A m, n \in 0..6 :
          tectal_modifiers(rp.beta, rp.gamma, rp.delta)[m + 1][n + 1] = Coefficient(Abs(m - 3) + Abs(n - 3))
    /\ Stepped =>
          \A cell \in Cells :
              /\ convolve2d(H_star_grid, tectal_modifiers(rp.beta, rp.gamma, rp.delta), XT, YT)[cell[1]][cell[2]]
                     = LateralSum(cell[1], cell[2], XT * YT) \div Q
              /\ H_grid[cell[1]][cell[2]] =
                     EulerStep(cell, [j \in 0..(YT - 1) |-> [i \in 0..(XT - 1) |->
                                         LateralSum(j, i, XT * YT) \div Q]])

\* a pass on the sheet narrower than the kernel with an active cell on its edge
C25_Witness ==
    /\ Stepped
    /\ XT < 7
    /\ YT < 7
    /\ H_star_grid[0][0] > 0
    /\ LateralSum(0, 1, XT * YT) # 0

\* C26: threshold gives max(H - theta, 0) in every cell, so 0 for a cell equal
\* to theta and no negative cell, and leaves its input as it was: the mean
\* taken after the call is that of the grid before it.
C26_ThresholdIsMaxWithZero ==
    Stepped =>
        /\ \A cell \in Cells :
              LET before == H_grid_before[cell[1]][cell[2]]
                  star == H_star_grid[cell[1]][cell[2]]
              IN  /\ star = (IF before - rp.theta > 0 THEN before - rp.theta ELSE 0)
                  /\ star >= 0
                  /\ before = rp.theta => star = 0
        /\ mean_H_grid = mean(H_grid_before, XT, YT)

\* a grid with a cell above theta, one at theta and one below it was thresholded
C26_Witness ==
    /\ Stepped
    /\ \E cell \in Cells : H_grid_before[cell[1]][cell[2]] = rp.theta
    /\ \E cell \in Cells : H_grid_before[cell[1]][cell[2]] > rp.theta /\ H_star_grid[cell[1]][cell[2]] > 0
    /\ \E cell \in Cells : H_grid_before[cell[1]][cell[2]] < rp.theta

-----------------------------------------------------------------------------
(* Properties of activate_tectal_sheet *)

RECURSIVE SumOverSet(_, _)
\* the sum of row[r] over the neurons r of a set
SumOverSet(row, neurons) ==
    IF neurons = {} THEN Zero
    ELSE LET r == CHOOSE r0 \in neurons : TRUE
         IN  RAdd(row[r], SumOverSet(row, neurons \ {r}))

\* the activated neurons are distinct neurons of the retinal sheet
ActivationInSheet ==
    /\ activation.outcome = "returned"
    /\ activity_pattern \in Patterns \ {"spiral"}
    /\ \A k \in 1..Len(activation.value) : InSheet(activation.value[k])
    /\ Cardinality(Elements(activation.value)) = Len(activation.value)

\* C27: for an activation set of the retinal sheet (distinct neurons, as the
\* policies return on sheets of at least 2x2) activate_tectal_sheet
\* returns a grid of YT rows and XT columns whose cell (row, col) is the sum of
\* S[row * XT + col][r] over the activated neurons r, and the matrix it was
\* given is still the one implement_polarity_markers returned.
C27_TectalSheetSumsActivatedColumns ==
    (tectal_sheet.outcome # "not called" /\ ActivationInSheet) =>
        /\ tectal_sheet.outcome = "returned"
        /\ DOMAIN tectal_sheet.value = 0..(YT - 1)
        /\ \A row \in 0..(YT - 1) :
              /\ DOMAIN tectal_sheet.value[row] = 0..(XT - 1)
              /\ \A col \in 0..(XT - 1) :
                    tectal_sheet.value[row][col] =
                        SumOverSet(s_marked.value[row * XT + col], Elements(activation.value))
        /\ s_marked.value = implement_polarity_markers(PM_kind, s, TRUE, XR, YR, XT, YT,
                                cfg.PM_strength_increase, <<0, 0, 0, 0>>)

\* the sheet of a tectal sheet wider than high was activated by four neurons
C27_Witness ==
    /\ tectal_sheet.outcome = "returned"
    /\ ActivationInSheet
    /\ XT # YT
    /\ Len(activation.value) = 4
    /\ tectal_sheet.value[0][1] # tectal_sheet.value[1][0]

-----------------------------------------------------------------------------
(* The normaliser of quality *)

\* every centroid lies on the retinal sheet
CentroidsInSheet ==
    \A i \in 0..(XT * YT - 1) :
        /\ IsFinite(COM_X[i]) /\ RLe(Zero, COM_X[i]) /\ RLe(COM_X[i], FromInt(XR - 1))
        /\ IsFinite(COM_Y[i]) /\ RLe(Zero, COM_Y[i]) /\ RLe(COM_Y[i], FromInt(YR - 1))

\* the squared displacement of neuron i from its ideal position
DispSquared(i) ==
    LET dx == RSub(COM_X[i], perfect_x(i, XT, XR))
        dy == RSub(COM_Y[i], perfect_y(i, XT, YT, YR))
    IN  RAdd(RMul(dx, dx), RMul(dy, dy))

\* C28: when every centroid lies on the retinal sheet, each squared
\* displacement is at most XR + YR, each normalised displacement at most 1,
\* and the quality is at least 0.
C28_InSheetQualityNonNegative ==
    (Computed /\ CentroidsInSheet) =>
        /\ \A i \in 0..(XT * YT - 1) :
              /\ RLe(DispSquared(i), FromInt(XR + YR))
              /\ RLe(quality_disp(i, XT, YT, XR, YR, COM_X, COM_Y), FromInt(1))
        /\ RLe(Zero, q)

-----------------------------------------------------------------------------
(* Termination of retinal_neuron_2_pairs *)

\* C29: on a sheet of at least 2x2 both rejection loops of 2_pairs end under
\* fair draws: the call returns its four neurons.
C29_TwoPairsTerminates == (XR >= 2 /\ YR >= 2) ~> (two_pairs.pc = "returned")

\* a call on the 2x2 sheet, where RN1 and RN2 leave two cells, has returned
\* with RN3 next to the first pair
C29_Witness ==
    /\ DOMAIN two_pairs # {}
    /\ two_pairs.pc = "returned"
    /\ XR = 2
    /\ YR = 2
    /\ Manhattan(two_pairs.RN3, two_pairs.RN1) = 1
    /\ activation.outcome = "returned"

====
